---- MODULE Spec2Model ----
(***************************************************************************)
(* A model of src/app.py: the Streamlit page `homepage` (save the upload,  *)
(* load the classifier, render the mel spectrogram, classify, and on the   *)
(* button run LIME and Grad-CAM), run by one or by two browser sessions    *)
(* over the process's shared files and pyplot state, and of grad_predict   *)
(* as a function of its four arguments.                                    *)
(*                                                                         *)
(* Abstractions.  A waveform is a short sequence of amplitudes, one STFT   *)
(* frame per sample.  An image is a row of NPix grey pixels 0..255 (the    *)
(* 224x224x3 raster sampled at NPix columns) together with its shape.      *)
(* A network is two weight rows: conv (block5_conv3 gain per channel) and  *)
(* dense (weight of each pooled channel in the target class score).        *)
(* Library calls that may raise for reasons outside app.py (librosa on a   *)
(* malformed file, LIME, the VGG16 weight download) are nondeterministic.  *)
(***************************************************************************)
EXTENDS Integers, Sequences, FiniteSets, TLC

\* ------------------------------------------------------------ bounds
MaxLen == 2      \* longest waveform, in samples
MaxRuns == 2     \* script runs (reruns) per session
MaxOut == 3      \* largest classifier output size
MaxIdx == 5      \* largest class index handed to grad_predict
NPix == 2        \* sampled pixel columns of an image
VggClasses == 4  \* classes of the reference network (stands for 1000)

\* ------------------------------------------------- program constants
TargetSize == 224    \* load_img(..., target_size=(224, 224))
VggMean == 117       \* vgg16.preprocess_input: the channel mean removed

class_names == <<"real", "fake">>

Sess == {1, 2}
Names == {"a.wav", "b.wav"}
Samples == {0, 1}
SampleRates == {0, 16000}
Chan == {1, 2}
Weights == {-1, 0, 1}

\* ------------------------------------------------------------ helpers
Max2(a, b) == IF a >= b THEN a ELSE b
Min2(a, b) == IF a <= b THEN a ELSE b
Abs(a) == IF a < 0 THEN 0 - a ELSE a

SeqMax(s) == CHOOSE m \in {s[i] : i \in DOMAIN s} : \A i \in DOMAIN s : s[i] <= m
SeqMin(s) == CHOOSE m \in {s[i] : i \in DOMAIN s} : \A i \in DOMAIN s : m <= s[i]

SeqsUpTo(S, n) == UNION {[1..k -> S] : k \in 0..n}

\* Python's list[i]: negative indexes count from the end.
PyInRange(i, n) == (0 - n) <= i /\ i < n

\* ------------------------------------------------- feature extraction
\* 10*log10(max(amin, v)) with amin = 1e-10, for the powers a sample has.
Db10(v) == CASE v = 0 -> -100 [] v = 1 -> 0 [] OTHER -> 6

\* librosa.feature.melspectrogram: the power of each frame.
melspectrogram(y) == [i \in DOMAIN y |-> y[i] * y[i]]

\* librosa.power_to_db(ms, ref=np.max): dB relative to the signal's own
\* maximum, floored at top_db = 80 below the peak.
power_to_db(ms) ==
    LET ref == SeqMax(ms)
        raw == [i \in DOMAIN ms |-> Db10(ms[i]) - Db10(ref)]
    IN [i \in DOMAIN ms |-> Max2(raw[i], SeqMax(raw) - 80)]

\* librosa.display.specshow: the colour scale spans the data's own range;
\* a constant array maps to the bottom of the scale.
specshow(log_ms) ==
    LET lo == SeqMin(log_ms)
        hi == SeqMax(log_ms)
    IN [i \in DOMAIN log_ms |->
          IF hi = lo THEN 0 ELSE (255 * (log_ms[i] - lo)) \div (hi - lo)]

\* The figure create_spectrogram draws for the samples y.  An empty
\* waveform that librosa accepts is padded to one frame of zeros.
Render(y) ==
    LET yy == IF y = <<>> THEN <<0>> ELSE y
    IN specshow(power_to_db(melspectrogram(yy)))

\* Whether librosa.load / melspectrogram may raise on this file: app.py
\* checks nothing itself, so only a malformed file can fail.
MayRaise(audio) == audio.y = <<>> \/ audio.sr <= 0

\* load_img(path, target_size): decode and resample to the target size.
load_img(png) ==
    [h |-> TargetSize, w |-> TargetSize,
     px |-> [j \in 1..NPix |-> png[(((j - 1) * Len(png)) \div NPix) + 1]]]

\* ------------------------------------------------------- array memory
\* A heap of pixel buffers: address -> contents, <<>> when free.  Address
\* ImgAddr holds the buffer of image_data; the others are a call's locals.
ImgAddr == 1
Addrs == {1, 2, 3}
EmptyHeap == [a \in Addrs |-> <<>>]
HeapOf(px) == [EmptyHeap EXCEPT ![ImgAddr] = px]
Fresh(heap) == CHOOSE a \in Addrs : heap[a] = <<>> /\ \A b \in Addrs : heap[b] = <<>> => a <= b

\* np.array(image) / img_to_array(image): a new array holding a copy.
np_array(heap, a) ==
    LET b == Fresh(heap) IN [heap |-> [heap EXCEPT ![b] = heap[a]], ref |-> b]

\* np.asarray-like: no copy, the array views the image's own buffer.
img_to_array_view(heap, a) == [heap |-> heap, ref |-> a]

img_to_array(heap, a) == np_array(heap, a)

\* img_array / 255.0: a new array, here in thousandths.
divide255(heap, a) ==
    LET b == Fresh(heap)
    IN [heap |-> [heap EXCEPT ![b] = [i \in DOMAIN heap[a] |-> (heap[a][i] * 1000) \div 255]],
        ref |-> b]

\* np.expand_dims(a, axis=0): a view of the same buffer.
expand_dims(a) == a

\* vgg16.preprocess_input(x) on a float array: the mean is subtracted in
\* place, in the buffer x views.
preprocess_input(heap, a) ==
    [heap EXCEPT ![a] = [i \in DOMAIN heap[a] |-> heap[a][i] - VggMean]]

\* ---------------------------------------------------------- classifier
\* np.argmax: the first (lowest) 0-based index holding the maximum.
argmax(v) ==
    (CHOOSE i \in DOMAIN v : v[i] = SeqMax(v) /\ \A j \in DOMAIN v : j < i => v[j] < v[i]) - 1

\* predictions(image_data, model), lines 43-49.  The vector model.predict
\* returns for the image is the artifact's out.
predictions(heap, img, model) ==
    LET a1 == np_array(heap, img)
        a2 == divide255(a1.heap, a1.ref)
        img_batch == expand_dims(a2.ref)
        prediction == model.out
    IN [heap |-> a2.heap, class_label |-> argmax(prediction), prediction |-> prediction]

\* lime_predict(image_data, model), lines 51-80.  explain_ok is whether
\* LimeImageExplainer.explain_instance and get_image_and_mask return.
lime_predict(heap, img, model, explain_ok) ==
    LET a1 == np_array(heap, img)
        a2 == divide255(a1.heap, a1.ref)
        img_batch == expand_dims(a2.ref)
        class_label == argmax(model.out)
    IN [heap |-> a2.heap,
        status |-> IF ~explain_ok THEN "LimeError"
                   ELSE IF ~PyInRange(class_label, Len(class_names)) THEN "IndexError"
                   ELSE "ok",
        label |-> class_label]

\* ------------------------------------------------------------ Grad-CAM
\* A saliency value is a fraction n/d; 0/0 is NaN.
Frac(n, d) == [n |-> n, d |-> d]
IsNaN(f) == f.d = 0
InUnit(f) == ~IsNaN(f) /\ ((f.d > 0 /\ 0 <= f.n /\ f.n <= f.d) \/ (f.d < 0 /\ f.n = 0))

\* The block5_conv3 activations (ReLU) of the network for the input x.
Activations(net, x) == [p \in DOMAIN x |-> [c \in Chan |-> Max2(0, net.conv[c] * x[p])]]

\* tape.gradient + reduce_mean: one weight per channel, the derivative of
\* the class score with respect to that channel, averaged over positions.
PooledGrads(net, class_idx) ==
    [c \in Chan |-> IF class_idx % 2 = 0 THEN net.dense[c] ELSE 0 - net.dense[c]]

\* last_conv_layer_output @ pooled_grads: the channel-weighted sum.
WeightedSum(act, pooled) ==
    [p \in DOMAIN act |-> act[p][1] * pooled[1] + act[p][2] * pooled[2]]

\* tf.maximum(heatmap, 0) / tf.math.reduce_max(heatmap): the divisor is the
\* maximum of the heatmap before clamping.
Normalize(heatmap) ==
    [p \in DOMAIN heatmap |-> Frac(Max2(heatmap[p], 0), SeqMax(heatmap))]

\* cv2.resize(heatmap, (x.shape[2], x.shape[1])): dsize is (width, height).
resize(heatmap, width, height) == [h |-> height, w |-> width, v |-> heatmap]

\* np.uint8(255 * heatmap): a float NaN has no defined uint8 value.
Uint8Heat(f, build) ==
    IF IsNaN(f) THEN build.nan ELSE IF f.n = 0 THEN 0 ELSE (255 * f.n) \div f.d

\* np.uint8(x[0]): a negative float has no defined uint8 value either.
Uint8Px(v, build) ==
    IF v >= 0 THEN v % 256 ELSE IF build.neg = "wrap" THEN v % 256 ELSE 0

Clamp255(v) == Max2(0, Min2(255, v))

\* cv2.applyColorMap(heatmap, cv2.COLORMAP_JET): the (B, G, R) colour.
Jet(v) ==
    <<Clamp255(383 - Abs(4 * v - 255)),
      Clamp255(383 - Abs(4 * v - 510)),
      Clamp255(383 - Abs(4 * v - 765))>>

\* cv2.addWeighted(src1, 0.6, src2, 0.4, 0), rounded.
addWeighted(a, bgr) == [k \in 1..3 |-> (6 * a + 4 * bgr[k] + 5) \div 10]

NoHeat == [h |-> 0, w |-> 0, v |-> <<>>]

\* Grad-CAM taken on the classifier that was passed in.
GradNetOfModel(model, vgg) == model.net

\* The network whose activations and scores grad_predict differentiates:
\* base_model = VGG16(weights='imagenet'), never the model passed in.
GradNet(model, vgg) == vgg

\* A title lookup that wraps the index into the vocabulary.
TitleIdxWrapped(class_idx) == class_idx % 2

\* The class-name lookup of the figure title, line 118.
TitleIdx(class_idx) == class_idx

\* grad_predict(image_data, model, preds, class_idx), lines 82-123.
\*   status : "ok" or the exception raised
\*   heat   : the normalized, upsampled saliency map once computed
\*   ret    : superimposed_img when returned;  shown : st.pyplot was reached
grad_predict(heap, img, shape, model, preds, class_idx, vgg, build, vgg_ok) ==
    LET a1 == img_to_array(heap, img)
        x == expand_dims(a1.ref)
        h1 == preprocess_input(a1.heap, x)
        net == GradNet(model, vgg)
        act == Activations(net, h1[x])
        norm == Normalize(WeightedSum(act, PooledGrads(net, class_idx)))
        up == resize(norm, shape.w, shape.h)
        u8 == [p \in DOMAIN up.v |-> Uint8Heat(up.v[p], build)]
        sup == [p \in DOMAIN u8 |-> addWeighted(Uint8Px(h1[x][p], build), Jet(u8[p]))]
    IN IF ~vgg_ok
         THEN [heap |-> h1, status |-> "WeightsError", heat |-> NoHeat, ret |-> <<>>, shown |-> FALSE]
       ELSE IF ~PyInRange(class_idx, VggClasses)
         THEN [heap |-> h1, status |-> "InvalidArgumentError", heat |-> NoHeat, ret |-> <<>>, shown |-> FALSE]
       ELSE IF ~PyInRange(TitleIdx(class_idx), Len(class_names))
         THEN [heap |-> h1, status |-> "IndexError", heat |-> up, ret |-> <<>>, shown |-> FALSE]
       ELSE [heap |-> h1, status |-> "ok", heat |-> up, ret |-> sup, shown |-> TRUE]

\* ------------------------------------------------------------- state
VARIABLES
    sessions,     \* the browser sessions running the script
    artifact,     \* saved_model/model/saved_model.pb
    build,        \* what this build's float -> uint8 casts give where C leaves it open
    vgg,          \* the imagenet weights of VGG16
    chosen,       \* the .wav file each session's user has to upload
    uploader,     \* st.file_uploader holds the file
    button,       \* st.button('Show XAI Metrics') was clicked for this run
    buttonShown,  \* the button was rendered by the last run
    pc,           \* where each session's script run stands
    runs,         \* script runs of each session so far
    audio_files,  \* the directory audio_files/: name -> content
    png,          \* melspectrogram.png
    figs,         \* pyplot's open figures, the current one last
    model,        \* the run's loaded model
    spec,         \* the run's image_data
    extracted,    \* the image as load_img returned it
    class_label,  \* the run's class_label
    prediction,   \* the run's prediction
    out,          \* the elements the run has put on the page
    trace,        \* the stages the run has started, in order
    call,         \* arguments of grad_predict called on its own
    res           \* its results, per call

pvars == <<sessions, artifact, build, vgg, chosen, uploader, button, buttonShown, pc, runs,
           audio_files, png, figs, model, spec, extracted, class_label, prediction, out, trace>>
hvars == <<call, res>>
vars == <<pvars, hvars>>

ProdNet == [conv |-> [c \in Chan |-> 1], dense |-> [c \in Chan |-> 1]]
NoModel == [ok |-> FALSE, out |-> <<>>, net |-> ProdNet]
NoImage == [h |-> 0, w |-> 0, px |-> <<>>]
NoAudio == [y |-> <<>>, sr |-> 0]
Blank == <<255>>

Probs == {0, 1}
Artifacts ==
    {NoModel} \cup
    {[ok |-> TRUE, out |-> v, net |-> ProdNet] : v \in SeqsUpTo(Probs, MaxOut) \ {<<>>}}
Builds == [nan : {0, 255}, neg : {"wrap", "sat"}]
Nets == [conv : [Chan -> Weights], dense : [Chan -> Weights]]
VggImagenet == [conv |-> [c \in Chan |-> IF c = 1 THEN 1 ELSE -1],
                dense |-> [c \in Chan |-> IF c = 1 THEN 1 ELSE 0]]
Audios == [y : SeqsUpTo(Samples, MaxLen), sr : SampleRates]
Files == [name : Names, audio : Audios]

\* ----------------------------------------------------- page elements
Text(k) == [t |-> "text", k |-> k, v |-> 0]
Label(i) == [t |-> "text", k |-> "label", v |-> i]
Media(k) == [t |-> "media", k |-> k, v |-> 0]
ErrorBox(k) == [t |-> "error", k |-> k, v |-> 0]
Exception(k) == [t |-> "exception", k |-> k, v |-> 0]

\* An error page that replaces what the run had shown.
UncaughtReplaces(page, kind) == <<Exception(kind)>>

\* An uncaught exception ends the run; Streamlit appends it to the page.
Uncaught(page, kind) == Append(page, Exception(kind))

\* The handler without st.stop(): the run goes on to create_spectrogram.
AfterLoadFailureContinues == "figure"

\* except Exception: st.error(...); st.stop() -- the run ends here.
AfterLoadFailure == "idle"

Set1(f, s, v) == [f EXCEPT ![s] = v]

\* ------------------------------------------------------------ actions
\* A widget event starts a run of the script from the top.
StartRun(s) ==
    /\ pc' = Set1(pc, s, "save")
    /\ runs' = Set1(runs, s, runs[s] + 1)
    /\ out' = Set1(out, s, <<>>)
    /\ trace' = Set1(trace, s, <<>>)
    /\ buttonShown' = Set1(buttonShown, s, FALSE)
    /\ model' = Set1(model, s, NoModel)
    /\ spec' = Set1(spec, s, NoImage)
    /\ extracted' = Set1(extracted, s, NoImage)
    /\ class_label' = Set1(class_label, s, -1)
    /\ prediction' = Set1(prediction, s, <<>>)
    /\ UNCHANGED <<call, res, sessions, artifact, build, vgg, chosen, audio_files, png, figs>>

Upload(s) ==
    /\ pc[s] = "idle" /\ runs[s] < MaxRuns /\ ~uploader[s]
    /\ uploader' = Set1(uploader, s, TRUE)
    /\ button' = Set1(button, s, FALSE)
    /\ StartRun(s)

Click(s) ==
    /\ pc[s] = "idle" /\ runs[s] < MaxRuns /\ uploader[s] /\ buttonShown[s]
    /\ button' = Set1(button, s, TRUE)
    /\ UNCHANGED uploader
    /\ StartRun(s)

\* The file is removed: the run takes the else branch, line 177.
Clear(s) ==
    /\ pc[s] = "idle" /\ runs[s] < MaxRuns /\ uploader[s]
    /\ uploader' = Set1(uploader, s, FALSE)
    /\ button' = Set1(button, s, FALSE)
    /\ runs' = Set1(runs, s, runs[s] + 1)
    /\ out' = Set1(out, s, <<Text("info")>>)
    /\ trace' = Set1(trace, s, <<>>)
    /\ buttonShown' = Set1(buttonShown, s, FALSE)
    /\ model' = Set1(model, s, NoModel)
    /\ spec' = Set1(spec, s, NoImage)
    /\ extracted' = Set1(extracted, s, NoImage)
    /\ class_label' = Set1(class_label, s, -1)
    /\ prediction' = Set1(prediction, s, <<>>)
    /\ UNCHANGED <<call, res, sessions, artifact, build, vgg, chosen, pc, audio_files, png, figs>>

\* Lines 147-152: play the audio, save_file.
SaveFile(s) ==
    /\ pc[s] = "save"
    /\ out' = Set1(out, s, Append(out[s], Media("audio")))
    /\ audio_files' = [audio_files EXCEPT ![chosen[s].name] = chosen[s].audio]
    /\ pc' = Set1(pc, s, "load_model")
    /\ UNCHANGED <<call, res, sessions, artifact, build, vgg, chosen, uploader, button, buttonShown,
                   runs, png, figs, model, spec, extracted, class_label, prediction, trace>>

\* Lines 155-159.
LoadModel(s) ==
    /\ pc[s] = "load_model"
    /\ trace' = Set1(trace, s, Append(trace[s], "load_model"))
    /\ \/ /\ artifact.ok
          /\ model' = Set1(model, s, artifact)
          /\ pc' = Set1(pc, s, "figure")
          /\ UNCHANGED out
       \/ /\ ~artifact.ok
          /\ out' = Set1(out, s, Append(out[s], ErrorBox("LoadError")))
          /\ pc' = Set1(pc, s, AfterLoadFailure)
          /\ UNCHANGED model
    /\ UNCHANGED <<call, res, sessions, artifact, build, vgg, chosen, uploader, button, buttonShown,
                   runs, audio_files, png, figs, spec, extracted, class_label, prediction>>

\* create_spectrogram, lines 24-28: plt.figure makes a new current figure.
Figure(s) ==
    /\ pc[s] = "figure"
    /\ trace' = Set1(trace, s, Append(trace[s], "extract"))
    /\ figs' = Append(figs, [owner |-> s, run |-> runs[s], img |-> Blank])
    /\ pc' = Set1(pc, s, "librosa")
    /\ UNCHANGED <<call, res, sessions, artifact, build, vgg, chosen, uploader, button, buttonShown,
                   runs, audio_files, png, model, spec, extracted, class_label, prediction, out>>

Mine(s, f) == f.owner = s /\ f.run = runs[s]

\* Lines 30-34: read audio_files/<sound> and draw on the run's own axes.
Librosa(s) ==
    /\ pc[s] = "librosa"
    /\ LET audio == audio_files[chosen[s].name]
       IN \/ /\ MayRaise(audio)
             /\ out' = Set1(out, s, Uncaught(out[s], "LibrosaError"))
             /\ pc' = Set1(pc, s, "idle")
             /\ UNCHANGED figs
          \/ /\ figs' = [i \in DOMAIN figs |->
                           IF Mine(s, figs[i]) THEN [figs[i] EXCEPT !.img = Render(audio.y)]
                           ELSE figs[i]]
             /\ pc' = Set1(pc, s, "savefig")
             /\ UNCHANGED out
    /\ UNCHANGED <<call, res, sessions, artifact, build, vgg, chosen, uploader, button, buttonShown,
                   runs, audio_files, png, model, spec, extracted, class_label, prediction, trace>>

\* Line 36: plt.savefig saves pyplot's current figure.
SaveFig(s) ==
    /\ pc[s] = "savefig"
    /\ png' = figs[Len(figs)].img
    /\ pc' = Set1(pc, s, "close")
    /\ UNCHANGED <<call, res, sessions, artifact, build, vgg, chosen, uploader, button, buttonShown,
                   runs, audio_files, figs, model, spec, extracted, class_label, prediction,
                   out, trace>>

\* Line 37: plt.close(fig).
Close(s) ==
    /\ pc[s] = "close"
    /\ figs' = SelectSeq(figs, LAMBDA f : ~Mine(s, f))
    /\ pc' = Set1(pc, s, "load_img")
    /\ UNCHANGED <<call, res, sessions, artifact, build, vgg, chosen, uploader, button, buttonShown,
                   runs, audio_files, png, model, spec, extracted, class_label, prediction,
                   out, trace>>

\* Lines 39-41: load the png back and show it.
LoadImg(s) ==
    /\ pc[s] = "load_img"
    /\ spec' = Set1(spec, s, load_img(png))
    /\ extracted' = Set1(extracted, s, load_img(png))
    /\ out' = Set1(out, s, Append(out[s], Media("spectrogram")))
    /\ pc' = Set1(pc, s, "classify")
    /\ UNCHANGED <<call, res, sessions, artifact, build, vgg, chosen, uploader, button, buttonShown,
                   runs, audio_files, png, figs, model, class_label, prediction, trace>>

\* Lines 163-167: classify, write the label, render the button.
Classify(s) ==
    /\ pc[s] = "classify"
    /\ trace' = Set1(trace, s, Append(trace[s], "classify"))
    /\ LET r == predictions(HeapOf(spec[s].px), ImgAddr, model[s])
           page == Append(out[s], Text("Classification results"))
       IN /\ spec' = Set1(spec, s, [spec[s] EXCEPT !.px = r.heap[ImgAddr]])
          /\ class_label' = Set1(class_label, s, r.class_label)
          /\ prediction' = Set1(prediction, s, r.prediction)
          /\ \/ /\ PyInRange(r.class_label, Len(class_names))
                /\ out' = Set1(out, s, Append(page, Label(r.class_label)))
                /\ buttonShown' = Set1(buttonShown, s, TRUE)
                /\ pc' = Set1(pc, s, IF button[s] THEN "lime" ELSE "idle")
             \/ /\ ~PyInRange(r.class_label, Len(class_names))
                /\ out' = Set1(out, s, Uncaught(page, "IndexError"))
                /\ pc' = Set1(pc, s, "idle")
                /\ UNCHANGED buttonShown
    /\ UNCHANGED <<call, res, sessions, artifact, build, vgg, chosen, uploader, button,
                   runs, audio_files, png, figs, model, extracted>>

\* Lines 168-170.
Lime(s) ==
    /\ pc[s] = "lime"
    /\ trace' = Set1(trace, s, Append(trace[s], "lime"))
    /\ \E explain_ok \in BOOLEAN :
         LET r == lime_predict(HeapOf(spec[s].px), ImgAddr, model[s], explain_ok)
             page == Append(out[s], Text("XAI Metrics using LIME"))
         IN /\ spec' = Set1(spec, s, [spec[s] EXCEPT !.px = r.heap[ImgAddr]])
            /\ \/ /\ r.status = "ok"
                  /\ out' = Set1(out, s, Append(page, Media("lime")))
                  /\ pc' = Set1(pc, s, "grad")
               \/ /\ r.status # "ok"
                  /\ out' = Set1(out, s, Uncaught(page, r.status))
                  /\ pc' = Set1(pc, s, "idle")
    /\ UNCHANGED <<call, res, sessions, artifact, build, vgg, chosen, uploader, button, buttonShown,
                   runs, audio_files, png, figs, model, extracted, class_label, prediction>>

\* Lines 172-174.
Grad(s) ==
    /\ pc[s] = "grad"
    /\ trace' = Set1(trace, s, Append(trace[s], "grad"))
    /\ \E vgg_ok \in BOOLEAN :
         LET r == grad_predict(HeapOf(spec[s].px), ImgAddr, spec[s], model[s], prediction[s],
                               class_label[s], vgg, build, vgg_ok)
             page == Append(out[s], Text("XAI Metrics using Grad-CAM"))
         IN /\ spec' = Set1(spec, s, [spec[s] EXCEPT !.px = r.heap[ImgAddr]])
            /\ \/ /\ r.status = "ok"
                  /\ out' = Set1(out, s, Append(page, Media("gradcam")))
               \/ /\ r.status # "ok"
                  /\ out' = Set1(out, s, Uncaught(page, r.status))
    /\ pc' = Set1(pc, s, "idle")
    /\ UNCHANGED <<call, res, sessions, artifact, build, vgg, chosen, uploader, button, buttonShown,
                   runs, audio_files, png, figs, model, extracted, class_label, prediction>>

Next ==
    \/ \E s \in Sess : Upload(s)
    \/ \E s \in Sess : Click(s)
    \/ \E s \in Sess : Clear(s)
    \/ \E s \in Sess : SaveFile(s)
    \/ \E s \in Sess : LoadModel(s)
    \/ \E s \in Sess : Figure(s)
    \/ \E s \in Sess : Librosa(s)
    \/ \E s \in Sess : SaveFig(s)
    \/ \E s \in Sess : Close(s)
    \/ \E s \in Sess : LoadImg(s)
    \/ \E s \in Sess : Classify(s)
    \/ \E s \in Sess : Lime(s)
    \/ \E s \in Sess : Grad(s)

\* ------------------------------------------------------ initial states
NotCalled == [heap |-> EmptyHeap, status |-> "none", heat |-> NoHeat, ret |-> <<>>, shown |-> FALSE]
NoCall == [px |-> <<>>, class_idx |-> 0, vgg_ok |-> TRUE]
NoRes == [r \in {1, 2} |-> NotCalled]

HarnessOff == call = NoCall /\ res = NoRes

PageInit(ss) ==
    /\ sessions = ss
    /\ uploader = [s \in Sess |-> FALSE]
    /\ button = [s \in Sess |-> FALSE]
    /\ buttonShown = [s \in Sess |-> FALSE]
    /\ pc = [s \in Sess |-> IF s \in ss THEN "idle" ELSE "off"]
    /\ runs = [s \in Sess |-> 0]
    /\ audio_files = [n \in Names |-> NoAudio]
    /\ png = <<>>
    /\ figs = <<>>
    /\ model = [s \in Sess |-> NoModel]
    /\ spec = [s \in Sess |-> NoImage]
    /\ extracted = [s \in Sess |-> NoImage]
    /\ class_label = [s \in Sess |-> -1]
    /\ prediction = [s \in Sess |-> <<>>]
    /\ out = [s \in Sess |-> IF s \in ss THEN <<Text("info")>> ELSE <<>>]
    /\ trace = [s \in Sess |-> <<>>]

DefaultFile == [name |-> "a.wav", audio |-> NoAudio]

\* One session, any file, any model artifact.
Init ==
    /\ PageInit({1})
    /\ artifact \in Artifacts
    /\ build \in Builds
    /\ vgg = VggImagenet
    /\ chosen \in {f \in [Sess -> Files \cup {DefaultFile}] : f[2] = DefaultFile /\ f[1] \in Files}
    /\ HarnessOff

Spec == Init /\ [][Next]_vars

\* One session whose file decodes: a non-empty waveform at a positive
\* rate, so that nothing but app.py decides what becomes of it.
InitWav ==
    /\ Init
    /\ chosen[1].audio.y # <<>>
    /\ chosen[1].audio.sr > 0

SpecWav == InitWav /\ [][Next]_vars

\* Two sessions at once, over the same working directory and pyplot,
\* uploading differently named files with different audio.
ConcAudios == {[y |-> <<1, 0>>, sr |-> 16000], [y |-> <<0, 1>>, sr |-> 16000],
               [y |-> <<1, 1>>, sr |-> 16000]}
ConcFiles == [name : Names, audio : ConcAudios]
ConcArtifacts == {a \in Artifacts : a.out \in {<<>>, <<1, 0>>, <<0, 0, 1>>}}

InitConc ==
    /\ PageInit({1, 2})
    /\ artifact \in ConcArtifacts
    /\ build = [nan |-> 0, neg |-> "wrap"]
    /\ vgg = VggImagenet
    /\ chosen \in {f \in [Sess -> ConcFiles] :
                      f[1].name # f[2].name /\ f[1].audio # f[2].audio}
    /\ HarnessOff

SpecConc == InitConc /\ [][Next]_vars

\* ------------------------------------------- grad_predict on its own
\* The two calls get the same image and class index and different
\* production models and probability vectors.
OtherNet == [conv |-> [c \in Chan |-> -1], dense |-> [c \in Chan |-> IF c = 1 THEN 1 ELSE -1]]
CallArgs ==
    <<[model |-> [ok |-> TRUE, out |-> <<1, 0>>, net |-> ProdNet], preds |-> <<1, 0>>],
      [model |-> [ok |-> TRUE, out |-> <<0, 1>>, net |-> OtherNet], preds |-> <<0, 1>>]>>
GradPixels == {0, 255}
Shape224 == [h |-> TargetSize, w |-> TargetSize, px |-> <<>>]

GradCall(r) ==
    /\ res[r] = NotCalled
    /\ res' = [res EXCEPT ![r] =
                 grad_predict(HeapOf(call.px), ImgAddr, Shape224, CallArgs[r].model,
                              CallArgs[r].preds, call.class_idx, vgg, build, call.vgg_ok)]
    /\ UNCHANGED <<call, pvars>>

NextGrad == \E r \in {1, 2} : GradCall(r)

InitGrad ==
    /\ PageInit({})
    /\ artifact = NoModel
    /\ build \in Builds
    /\ vgg \in Nets
    /\ chosen = [s \in Sess |-> DefaultFile]
    /\ call \in [px : [1..NPix -> GradPixels], class_idx : (-1)..MaxIdx, vgg_ok : BOOLEAN]
    /\ res = NoRes

SpecGrad == InitGrad /\ [][NextGrad]_vars

\* ---------------------------------------------------------- properties
Has(page, e) == \E i \in DOMAIN page : page[i] = e
IsFailure(e) == e.t \in {"error", "exception"}
Failures(page) == SelectSeq(page, IsFailure)
LastOf(q) == q[Len(q)]
Stages == <<"load_model", "extract", "classify", "lime", "grad">>
IsPrefix(a, b) == Len(a) <= Len(b) /\ \A i \in DOMAIN a : a[i] = b[i]
Ran(s, stage) == \E i \in DOMAIN trace[s] : trace[s][i] = stage

\* The stages in which each failure kind is raised.
StagesOf(kind) ==
    CASE kind = "LoadError" -> {"load_model"}
      [] kind = "LibrosaError" -> {"extract"}
      [] kind = "LimeError" -> {"lime"}
      [] kind \in {"WeightsError", "InvalidArgumentError"} -> {"grad"}
      [] OTHER -> {"classify", "lime", "grad"}

\* The run of session s ended with its explainer stage e failing.
ExplainerFailed(s, e) ==
    /\ pc[s] = "idle" /\ trace[s] # <<>> /\ LastOf(trace[s]) = e
    /\ out[s] # <<>> /\ IsFailure(LastOf(out[s]))

\* C1: when LIME or Grad-CAM fails after a successful classification, the
\* failure is shown as one element of its own and the classification stays
\* on the page and stays what the classifier computed: the label shown is
\* the arg-max of the probability vector the model returned.
C1_ExplainerFailureKeepsClassification ==
    \A s \in sessions : \A e \in {"lime", "grad"} :
        ExplainerFailed(s, e) =>
            /\ Len(Failures(out[s])) = 1
            /\ e \in StagesOf(LastOf(out[s]).k)
            /\ Has(out[s], Label(class_label[s]))
            /\ PyInRange(class_label[s], Len(class_names))
            /\ prediction[s] = model[s].out
            /\ class_label[s] = argmax(prediction[s])

C1_Witness == ExplainerFailed(1, "grad") /\ Has(out[1], Media("lime"))

\* C2: the two explainers are triggered independently: a run in which
\* explanations were asked for and classification succeeded runs the
\* gradient explainer whatever became of the perturbation explainer.
C2_GradRunsWhateverLimeDid ==
    \A s \in sessions :
        (pc[s] = "idle" /\ button[s] /\ Has(out[s], Label(class_label[s]))) => Ran(s, "grad")

\* C3: the stages run in the order load, extract, classify, LIME, Grad-CAM;
\* a run shows at most one failure, the failure is the last thing the run
\* does (no later stage starts), and it is the failure of the stage that
\* was running, with the kind that stage raised.
C3_ShortCircuitOnFirstFailure ==
    \A s \in sessions :
        /\ IsPrefix(trace[s], Stages)
        /\ Len(Failures(out[s])) <= 1
        /\ Len(Failures(out[s])) = 1 =>
              /\ IsFailure(LastOf(out[s]))
              /\ pc[s] = "idle"
              /\ trace[s] # <<>>
              /\ LastOf(trace[s]) \in StagesOf(LastOf(out[s]).k)

C3_Witness ==
    /\ Has(out[1], ErrorBox("LoadError"))
    /\ trace[1] = <<"load_model">>
    /\ pc[1] = "idle"

\* C4: whatever the interleaving of two sessions, the image a session holds
\* (and classifies and explains) is the one extracted from its own audio.
C4_ImageIsOwn ==
    \A s \in sessions :
        spec[s] # NoImage => spec[s] = load_img(Render(chosen[s].audio.y))

Silent(audio) == \A i \in DOMAIN audio.y : audio.y[i] = 0
BadAudio(audio) == audio.y = <<>> \/ Silent(audio) \/ audio.sr <= 0

\* C5: an empty or silent waveform, or a non-positive sampling rate, makes
\* feature extraction fail: the figure is never saved, no image is loaded,
\* the input is never classified, and the run ends showing the failure.
C5_BadAudioRejected ==
    \A s \in sessions :
        (BadAudio(chosen[s].audio) /\ Ran(s, "extract")) =>
            /\ pc[s] \in {"librosa", "idle"}
            /\ spec[s] = NoImage
            /\ ~Ran(s, "classify")
            /\ (pc[s] = "idle" => (out[s] # <<>> /\ IsFailure(LastOf(out[s]))))

\* C6: once a run has classified, the label predictions returned is never
\* out of the vocabulary; when the model's output has the vocabulary's
\* size the label is the lowest arg-max, and otherwise the model was
\* rejected: no label was produced or shown and the run shows the failure.
C6_LabelValidOrModelRejected ==
    \A s \in sessions :
        (Ran(s, "classify") /\ pc[s] # "classify") =>
            /\ class_label[s] \in (-1)..(Len(class_names) - 1)
            /\ IF Len(artifact.out) = Len(class_names)
               THEN class_label[s] = argmax(prediction[s])
               ELSE /\ class_label[s] = -1
                    /\ out[s] # <<>> /\ IsFailure(LastOf(out[s]))
                    /\ ~\E i \in DOMAIN out[s] : out[s][i].k = "label"

Called(r) == res[r] # NotCalled
Beyond(class_idx) == class_idx >= Len(class_names)

\* C7 (as stated): given a class index beyond the vocabulary, grad_predict
\* fails before any saliency map has been computed.
C7_FailsBeforeAnyMap ==
    \A r \in {1, 2} :
        (Called(r) /\ Beyond(call.class_idx)) => (res[r].status # "ok" /\ res[r].heat = NoHeat)

\* C7 (amended): given a class index beyond the vocabulary, grad_predict
\* raises and neither returns nor displays an image; a map may have been
\* computed before the raise.
C7_FailsBeforeReturning ==
    \A r \in {1, 2} :
        (Called(r) /\ Beyond(call.class_idx)) =>
            /\ res[r].status \in {"IndexError", "InvalidArgumentError", "WeightsError"}
            /\ res[r].ret = <<>>
            /\ ~res[r].shown

C7_Witness ==
    /\ Called(1) /\ Beyond(call.class_idx)
    /\ res[1].status = "IndexError" /\ res[1].heat # NoHeat

\* C8: every saliency map grad_predict computes has all its values in
\* [0,1] and, after upsampling, the resolution of the input image.
C8_SaliencyBounded ==
    \A r \in {1, 2} :
        (Called(r) /\ res[r].heat # NoHeat) =>
            /\ \A p \in DOMAIN res[r].heat.v : InUnit(res[r].heat.v[p])
            /\ res[r].heat.h = Shape224.h
            /\ res[r].heat.w = Shape224.w

\* C9: the image load_img returned is what every later stage sees:
\* predictions, lime_predict and grad_predict leave its pixels as they were.
C9_ImageUnchanged == \A s \in sessions : spec[s] = extracted[s]

C9_Witness ==
    /\ Has(out[1], Media("gradcam"))
    /\ spec[1] # NoImage
    /\ \E i \in DOMAIN spec[1].px : spec[1].px[i] # 0

\* C10: two calls of grad_predict with the same image and class index and
\* different production models and probability vectors give the same
\* saliency map and the same returned image.
C10_IndependentOfProductionModel ==
    (Called(1) /\ Called(2)) =>
        /\ res[1].status = res[2].status
        /\ res[1].heat = res[2].heat
        /\ res[1].ret = res[2].ret

C10_Witness ==
    /\ Called(1) /\ Called(2)
    /\ res[1].status = "ok"
    /\ \E p \in DOMAIN res[1].heat.v : res[1].heat.v[p].n > 0
    /\ CallArgs[1].model # CallArgs[2].model /\ CallArgs[1].preds # CallArgs[2].preds

====
